---- MODULE Spec2Model ----
(***************************************************************************)
(* Model of github-secrets-sync: the command line entry point main with    *)
(* parseArgs and updateReadme, the sync orchestration runSync              *)
(* (src/index.ts), the environment lookups and value-store wrappers        *)
(* getSecretValue / getVarValue / syncSecret / syncVariable                *)
(* (src/github.ts), the configuration parser parseYaml and the validation  *)
(* validateConfig (src/config.ts) and the name mapping parseSecret         *)
(* (src/types.ts).                                                         *)
(*                                                                         *)
(* Strings that the program inspects character by character (whitelist     *)
(* entries, environment names) are sequences of one-character strings.     *)
(***************************************************************************)
EXTENDS Integers, Sequences, FiniteSets, TLC

VARIABLES
  env,              \* process.env, as far as the run has read it: name -> value
  token,            \* process.env.GH_SYNC_PAT as runSync read it
  ghToken,          \* process.env.GH_TOKEN has been set by configureAuth
  dryRun,           \* options.dryRun
  doc,              \* what loadConfig found at the configuration path:
                    \* [state, raw], raw holding the parsed document if any
  canDetect,        \* what detectRepository found, if it was called
  config,           \* the SyncConfig returned by loadConfig, or NoConfig
  pc,               \* position of the process
  ti,               \* index of the current target in config.targets
  idx,              \* index in the list being iterated for the current target
  secretsForTarget, \* runSync local: effective secret list of the current target
  varsForTarget,    \* runSync local: effective var list of the current target
  results,          \* runSync local: SecretSyncResult[] collected so far
  lookups,          \* history: the reads of process.env by getSecretValue /
                    \* getVarValue: [entry, name, value]
  calls,            \* history: calls received by the value store (gh ... set)
  store,            \* value store contents: set of [op, repo, name, value]
  storeResp,        \* how the value store answers, as far as it was called:
                    \* repo -> [accepted, stderr]
  report,           \* the SyncResult returned by runSync, or NoReport
  printed,          \* what main wrote to stdout / stderr
  readmeUpdated,    \* updateReadme has written README.md
  exitCode,         \* argument of process.exit, or NoExit
  previous,         \* history: what the run before this one was given and
                    \* what it left, when the process has been run again
  entry,            \* the string handed to parseSecret
  parsed,           \* what parseSecret or parseYaml returned, once it has
  argv,             \* process.argv.slice(2), each argument split at its "="
  options,          \* the CliOptions parseArgs returned, once it has
  text,             \* the lines of the document handed to parseYaml
  readme,           \* README.md: [exists, lines]
  original,         \* history: README.md before the first run
  runs              \* history: the number of runs that updated README.md

vars == <<env, token, ghToken, dryRun, doc, canDetect, config, pc, ti, idx,
          secretsForTarget, varsForTarget, results, lookups, calls, store,
          storeResp, report, printed, readmeUpdated, exitCode, previous,
          entry, parsed, argv, options, text, readme, original, runs>>

\* the variables of the functions examined on their own
parseVars == <<entry, parsed, argv, options, text, readme, original, runs>>
\* the variables of the process but its position
runVars2 == <<env, token, ghToken, dryRun, doc, canDetect, config, ti, idx,
              secretsForTarget, varsForTarget, results, lookups, calls, store,
              storeResp, report, printed, readmeUpdated, exitCode, previous>>
\* the variables of the process
runVars == <<env, token, ghToken, dryRun, doc, canDetect, config, pc, ti, idx,
             secretsForTarget, varsForTarget, results, lookups, calls, store,
             storeResp, report, printed, readmeUpdated, exitCode, previous>>

-----------------------------------------------------------------------------
(* Bounds of the model *)

MaxSecrets == 2   \* longest global secrets list
MaxVars == 1      \* longest vars list (global or per target)
MaxTargets == 2   \* longest targets list
MaxLen == 4       \* longest entry string given to parseSecret
MaxArgs == 2      \* most command-line arguments
MaxLines == 4     \* most lines of a document given to parseYaml
MaxRuns == 3      \* most consecutive runs that update README.md
MaxDetails == 2   \* most outcomes in the report of such a run

-----------------------------------------------------------------------------
(* Values *)

\* optional fields (secrets?: string[]): undefined, or a list
None == [present |-> FALSE, kind |-> "undefined", list |-> <<>>]
Some(l) == [present |-> TRUE, kind |-> "array", list |-> l]
\* what parseYaml stores for "key: value" with a value on the line: the
\* string, whatever the field's declared type (list holds its characters)
Scalar(s) == [present |-> s # <<>>, kind |-> "string", list |-> s]
\* what parseYaml stores for "key:" when no list item follows: an object
ObjectValue == [present |-> TRUE, kind |-> "object", list |-> <<>>]
\* v.length === 0: a string's or an array's length; an object has none
LengthIsZero(v) == v.kind \in {"array", "string"} /\ Len(v.list) = 0

NoExit == -1       \* process.exit has not been called
NoError == <<>>    \* SecretSyncResult.error is undefined
NoRepo == ""       \* a target without a repository field

SeqsUpTo(S, n) == UNION {[1..k -> S] : k \in 0..n}
\* lists without repeated entries
DistinctSeqsUpTo(S, n) ==
  {l \in SeqsUpTo(S, n) : \A i, j \in 1..Len(l) : i # j => l[i] # l[j]}

Repos == {"o/r1", "o/r2"}
\* the JavaScript value undefined, where a string is expected (no string of
\* characters equals it), and the empty string
Undefined == <<"undefined">>
EmptyString == <<>>
\* an empty line of a file
BlankLine == <<>>
\* a file that does not exist
NoFile == [exists |-> FALSE, lines |-> <<>>]

-----------------------------------------------------------------------------
(* Strings *)

Chars == {"A", "B", ":", " "}
IsSpace(c) == c = " "

\* String.prototype.indexOf, 0-based, -1 when the character does not occur
IndexOf(s, c) ==
  IF \E i \in 1..Len(s) : s[i] = c
  THEN (CHOOSE i \in 1..Len(s) : s[i] = c /\ \A j \in 1..(i - 1) : s[j] # c) - 1
  ELSE -1

\* String.prototype.substring(from, to), 0-based, end exclusive
Substring(s, from, to) == SubSeq(s, from + 1, to)

RECURSIVE TrimStart(_)
TrimStart(s) ==
  IF s # <<>> /\ IsSpace(Head(s)) THEN TrimStart(Tail(s)) ELSE s

RECURSIVE TrimEnd(_)
TrimEnd(s) ==
  IF s # <<>> /\ IsSpace(s[Len(s)]) THEN TrimEnd(SubSeq(s, 1, Len(s) - 1)) ELSE s

\* String.prototype.trim
Trim(s) == TrimEnd(TrimStart(s))

-----------------------------------------------------------------------------
(* src/types.ts: parseSecret *)

\* String.prototype.lastIndexOf
LastIndexOf(s, c) ==
  IF \E i \in 1..Len(s) : s[i] = c
  THEN (CHOOSE i \in 1..Len(s) : s[i] = c /\ \A j \in (i + 1)..Len(s) : s[j] # c) - 1
  ELSE -1

\* parseSecret splitting at the last separator instead of the first
parseSecretLastColon(value) ==
  LET colonIndex == LastIndexOf(value, ":") IN
  IF colonIndex > 0
  THEN [source |-> Trim(Substring(value, 0, colonIndex)),
        target |-> Trim(Substring(value, colonIndex + 1, Len(value))),
        isRenamed |-> TRUE]
  ELSE [source |-> value, target |-> value, isRenamed |-> FALSE]

parseSecret(value) ==
  LET colonIndex == IndexOf(value, ":") IN
  IF colonIndex > 0
  THEN [source |-> Trim(Substring(value, 0, colonIndex)),
        target |-> Trim(Substring(value, colonIndex + 1, Len(value))),
        isRenamed |-> TRUE]
  ELSE [source |-> value, target |-> value, isRenamed |-> FALSE]

-----------------------------------------------------------------------------
(* src/config.ts: parseYaml, the list items *)

\* the object { key: value } that a list item "- key: value" becomes
ObjectItem(key, value) == <<"{">> \o key \o <<":">> \o value \o <<"}">>
IsObject(item) == item # <<>> /\ item[1] = "{"

\* the string JavaScript uses for an array item as a property name or in a
\* template literal
StringOf(item) == IF IsObject(item) THEN <<"[object Object]">> ELSE item

\* parseYaml lines 86-108: the array item pushed for "- itemContent"
\* (itemContent is trimmed): a string, or an object when it holds a colon
ParseListItem(itemContent) ==
  IF IndexOf(itemContent, ":") = -1
  THEN itemContent
  ELSE LET colonIndex == IndexOf(itemContent, ":")
           key == Substring(itemContent, 0, colonIndex)
           value == Trim(Substring(itemContent, colonIndex + 1, Len(itemContent)))
       IN IF key # <<>> THEN ObjectItem(Trim(key), value) ELSE <<"{", "}">>

\* whitelist entries as written in configuration documents
WrittenSecrets == {<<"A">>, <<"B">>, <<"A", ":", "B">>}
\* a third plain name, for documents with three secrets
ThirdSecret == <<"C">>
WrittenVars == {<<"V">>}
\* and as parseYaml stores them in the configuration
SecretEntries == {ParseListItem(w) : w \in WrittenSecrets}
VarEntries == {ParseListItem(w) : w \in WrittenVars}
\* the lists a target of the documents overrides the global lists with
OverrideSecrets == << <<"A">> >>
OverrideVars == << <<"V">> >>

\* names the environment may define
EnvNames == {<<"A">>, <<"B">>, <<"C">>, <<"V">>}
\* what process.env[name] can be: undefined, or a non-empty string
ValueOf(name) == <<"value-of">> \o name
\* another non-empty string for the same name
OtherValueOf(name) == <<"other-value-of">> \o name
EnvValues(name) ==
  IF name \in EnvNames THEN {Undefined, EmptyString, ValueOf(name)} ELSE {Undefined}

-----------------------------------------------------------------------------
(* src/github.ts *)

\* a string is truthy when it is defined and not empty
TruthyWhenDefined(v) == v # Undefined

Truthy(v) == v # Undefined /\ v # EmptyString

\* envValue is process.env[secretName]: returned when truthy, else the
\* function throws
getSecretValue(secretName, envValue) ==
  IF Truthy(envValue)
  THEN [threw |-> FALSE, value |-> envValue, message |-> NoError]
  ELSE [threw |-> TRUE, value |-> Undefined,
        message |-> <<"Secret value not found for">> \o StringOf(secretName)]

getVarValue(varName, envValue) ==
  IF Truthy(envValue)
  THEN [threw |-> FALSE, value |-> envValue, message |-> NoError]
  ELSE [threw |-> TRUE, value |-> Undefined,
        message |-> <<"Var value not found for">> \o StringOf(varName)]

\* gh secret set NAME -R repo --body VALUE: the call the value store receives
\* the secret set in the repository the process runs in, not in repo
setSecretInOwnRepository(repo, secretName, secretValue) ==
  [op |-> "secret", repo |-> "o/src", name |-> secretName, value |-> secretValue]

setSecret(repo, secretName, secretValue) ==
  [op |-> "secret", repo |-> repo, name |-> secretName, value |-> secretValue]

\* gh variable set NAME -R repo --body VALUE
setVariable(repo, varName, varValue) ==
  [op |-> "var", repo |-> repo, name |-> varName, value |-> varValue]

\* what gh writes to stderr when it reports why a command failed
StoreError == <<"gh: command failed">>
\* what a failing gh command can leave on stderr: a report, or nothing (gh
\* ended without writing, as when it is killed)
StdErrs == {StoreError, EmptyString}

\* the message of the Error execFileSync throws when the command fails:
\* "Command failed: " and the command with its arguments
CommandFailed(c) ==
  <<"Command failed: gh", IF c.op = "var" THEN "variable" ELSE "secret", "set">>
    \o StringOf(c.name) \o <<"-R", c.repo, "--body">> \o c.value

\* gh() lines 14-18: the message of the Error gh() throws for a failed
\* command is err.stderr || err.stdout || error.message; a failed set
\* command writes nothing to stdout
ghError(c, stderr) ==
  IF Truthy(stderr) THEN stderr ELSE CommandFailed(c)

\* syncSecret recording no error text when the set call fails
syncSecretDropsError(secretName, targetRepo, secretValue, dry, accepted, stderr) ==
  LET result == [secret |-> secretName, target |-> targetRepo,
                 success |-> FALSE, error |-> NoError, type |-> "secret"] IN
  IF dry
  THEN [threw |-> FALSE, message |-> NoError,
        result |-> [result EXCEPT !.success = TRUE], calls |-> <<>>]
  ELSE [threw |-> FALSE, message |-> NoError,
        result |-> [result EXCEPT !.success = accepted],
        calls |-> <<setSecret(targetRepo, secretName, secretValue)>>]

\* syncSecret without the dry-run branch: the set call is always made
syncSecretIgnoresDryRun(secretName, targetRepo, secretValue, dry, accepted, stderr) ==
  LET result == [secret |-> secretName, target |-> targetRepo,
                 success |-> FALSE, error |-> NoError, type |-> "secret"] IN
  IF accepted
  THEN [threw |-> FALSE, message |-> NoError,
        result |-> [result EXCEPT !.success = TRUE],
        calls |-> <<setSecret(targetRepo, secretName, secretValue)>>]
  ELSE [threw |-> FALSE, message |-> NoError,
        result |-> [result EXCEPT
                      !.error = ghError(setSecret(targetRepo, secretName, secretValue),
                                        stderr),
                      !.success = FALSE],
        calls |-> <<setSecret(targetRepo, secretName, secretValue)>>]

\* syncSecret: accepted is the value store's answer to the set call, if one
\* is made, and stderr what gh wrote to stderr when the call failed.  Gives the SecretSyncResult returned (or threw, with the message
\* of the exception that leaves the function) and the calls made (none or
\* one).  The try block catches what setSecret throws.
syncSecret(secretName, targetRepo, secretValue, dry, accepted, stderr) ==
  LET result == [secret |-> secretName, target |-> targetRepo,
                 success |-> FALSE, error |-> NoError, type |-> "secret"] IN
  IF dry
  THEN [threw |-> FALSE, message |-> NoError,
        result |-> [result EXCEPT !.success = TRUE], calls |-> <<>>]
  ELSE IF accepted
  THEN [threw |-> FALSE, message |-> NoError,
        result |-> [result EXCEPT !.success = TRUE],
        calls |-> <<setSecret(targetRepo, secretName, secretValue)>>]
  ELSE [threw |-> FALSE, message |-> NoError,
        result |-> [result EXCEPT
                      !.error = ghError(setSecret(targetRepo, secretName, secretValue),
                                        stderr),
                      !.success = FALSE],
        calls |-> <<setSecret(targetRepo, secretName, secretValue)>>]

\* syncVariable going through the secret operation
syncVariableAsSecret(varName, targetRepo, varValue, dry, accepted, stderr) ==
  syncSecret(varName, targetRepo, varValue, dry, accepted, stderr)

syncVariable(varName, targetRepo, varValue, dry, accepted, stderr) ==
  LET result == [secret |-> varName, target |-> targetRepo,
                 success |-> FALSE, error |-> NoError, type |-> "var"] IN
  IF dry
  THEN [threw |-> FALSE, message |-> NoError,
        result |-> [result EXCEPT !.success = TRUE], calls |-> <<>>]
  ELSE IF accepted
  THEN [threw |-> FALSE, message |-> NoError,
        result |-> [result EXCEPT !.success = TRUE],
        calls |-> <<setVariable(targetRepo, varName, varValue)>>]
  ELSE [threw |-> FALSE, message |-> NoError,
        result |-> [result EXCEPT
                      !.error = ghError(setVariable(targetRepo, varName, varValue),
                                        stderr),
                      !.success = FALSE],
        calls |-> <<setVariable(targetRepo, varName, varValue)>>]

\* a value store in which setting a name that is already set removes it
ApplyCallToggle(st, c) ==
  IF \E x \in st : x.op = c.op /\ x.repo = c.repo /\ x.name = c.name
  THEN {x \in st : ~(x.op = c.op /\ x.repo = c.repo /\ x.name = c.name)}
  ELSE st \cup {c}

\* the value store after it has accepted a set call: set overwrites
ApplyCall(st, c) ==
  {x \in st : ~(x.op = c.op /\ x.repo = c.repo /\ x.name = c.name)} \cup {c}

-----------------------------------------------------------------------------
(* src/config.ts: validateConfig *)

\* validateConfig without the loop over the targets
validateConfigNoRepositoryRule(cfg, detectable) ==
  IF cfg.source_repository = "" /\ ~detectable
  THEN [ok |-> FALSE, message |-> <<"Could not detect repository">>]
  ELSE IF ~cfg.secrets.present \/ LengthIsZero(cfg.secrets)
  THEN [ok |-> FALSE, message |-> <<"Missing required field: secrets">>]
  ELSE IF ~cfg.targets.present \/ LengthIsZero(cfg.targets)
  THEN [ok |-> FALSE, message |-> <<"Missing required field: targets">>]
  ELSE [ok |-> TRUE, message |-> NoError]

\* throws (ok = FALSE) with the message of the first violated rule
validateConfig(cfg, detectable) ==
  IF cfg.source_repository = "" /\ ~detectable
  THEN [ok |-> FALSE, message |-> <<"Could not detect repository">>]
  ELSE IF ~cfg.secrets.present \/ LengthIsZero(cfg.secrets)
  THEN [ok |-> FALSE, message |-> <<"Missing required field: secrets">>]
  ELSE IF ~cfg.targets.present \/ LengthIsZero(cfg.targets)
  THEN [ok |-> FALSE, message |-> <<"Missing required field: targets">>]
  ELSE IF cfg.targets.kind = "object"
  THEN [ok |-> FALSE, message |-> <<"config.targets is not iterable">>]
  ELSE IF \/ cfg.targets.kind = "string"   \* a character has no repository
          \/ /\ cfg.targets.kind = "array"
             /\ \E i \in 1..Len(cfg.targets.list) :
                  cfg.targets.list[i].repository = NoRepo
  THEN [ok |-> FALSE, message |-> <<"Each target must have a 'repository' field">>]
  ELSE [ok |-> TRUE, message |-> NoError]

\* the configuration validateConfig returns: source_repository filled in
Validated(cfg) ==
  [cfg EXCEPT !.source_repository =
     IF cfg.source_repository = "" THEN "detected/repo" ELSE cfg.source_repository]

-----------------------------------------------------------------------------
(* src/index.ts: runSync *)

\* the target's list appended to the global list instead of replacing it
SecretsForMerged(cfg, target) ==
  IF target.secrets.present THEN cfg.secrets.list \o target.secrets.list
  ELSE cfg.secrets.list

\* const secretsForTarget = target.secrets || config.secrets
SecretsFor(cfg, target) ==
  IF target.secrets.present THEN target.secrets.list ELSE cfg.secrets.list

\* const varsForTarget = target.vars || config.vars || []
VarsFor(cfg, target) ==
  IF target.vars.present THEN target.vars.list
  ELSE IF cfg.vars.present THEN cfg.vars.list
  ELSE <<>>

\* results.unshift(result) instead of push
PushFront(rs, r) == <<r>> \o rs

\* results.push(result)
Push(rs, r) == Append(rs, r)

RECURSIVE CountSuccess(_)
CountSuccess(rs) ==
  IF rs = <<>> THEN 0
  ELSE (IF Head(rs).success THEN 1 ELSE 0) + CountSuccess(Tail(rs))

RECURSIVE CountFailed(_)
CountFailed(rs) ==
  IF rs = <<>> THEN 0
  ELSE (IF ~Head(rs).success THEN 1 ELSE 0) + CountFailed(Tail(rs))

\* a summary that counts every outcome as successful
SummaryAllSuccessful(rs) ==
  [total |-> Len(rs), successful |-> Len(rs), failed |-> 0, details |-> rs]

\* the SyncResult built at the end of runSync (the timestamp is not modelled)
Summary(rs) ==
  [total |-> Len(rs), successful |-> CountSuccess(rs),
   failed |-> CountFailed(rs), details |-> rs]

-----------------------------------------------------------------------------
(* Inputs *)

Opt(lists) == {None} \cup {Some(l) : l \in lists}

\* a target of the parsed document: a repository alone, a repository with its
\* own secrets list, a repository with its own vars list, or no repository
FirstRepo == "o/r1"
SecondRepo == "o/r2"
TargetSet ==
  {[repository |-> r, secrets |-> None, vars |-> None] : r \in Repos \cup {NoRepo}}
  \cup {[repository |-> FirstRepo, secrets |-> Some(OverrideSecrets), vars |-> None],
        [repository |-> SecondRepo, secrets |-> None, vars |-> Some(OverrideVars)]}

\* the value of a line "key: []"
EmptyFlowList == <<"[", "]">>

\* the object parseYaml hands to validateConfig: documents that give the
\* source label, and documents with at most one target that leave it out
SecretsFields ==
  Opt(DistinctSeqsUpTo(SecretEntries, MaxSecrets))
    \cup {Scalar(EmptyFlowList), ObjectValue}
RawConfigs ==
  [source_repository : {"o/src"},
   secrets : SecretsFields,
   vars : Opt(DistinctSeqsUpTo(VarEntries, MaxVars)) \cup {Scalar(EmptyFlowList)},
   targets : Opt(SeqsUpTo(TargetSet, MaxTargets)) \cup {Scalar(EmptyFlowList)}]
  \cup
  [source_repository : {""},
   secrets : SecretsFields,
   vars : {None},
   targets : Opt(SeqsUpTo(TargetSet, 1)) \cup {Scalar(EmptyFlowList)}]

\* documents with three plain secrets and two targets that override nothing
ThreeSecretConfigs ==
  {[source_repository |-> "o/src",
    secrets |-> Some(<<<<"A">>, <<"B">>, ThirdSecret>>),
    vars |-> None,
    targets |-> Some(<<[repository |-> r1, secrets |-> None, vars |-> None],
                       [repository |-> r2, secrets |-> None, vars |-> None]>>)]
     : r1 \in Repos, r2 \in Repos}

\* what loadConfig finds: no readable file, or a parsed document
Unread == [state |-> "unread", raw |-> <<>>]
Docs ==
  {[state |-> "unreadable", raw |-> <<>>]}
  \cup {[state |-> "parsed", raw |-> <<c>>] : c \in RawConfigs \cup ThreeSecretConfigs}

\* what detectRepository finds when it is called
Detections == {"detected", "undetectable"}

\* what process.env.GH_SYNC_PAT can be
Tokens == {Undefined, EmptyString, <<"ghp_token">>}

-----------------------------------------------------------------------------
(* The process: main -> runSync -> main *)

Init ==
  /\ env = <<>>
  /\ token = Undefined
  /\ ghToken = FALSE
  /\ dryRun \in BOOLEAN
  /\ doc = Unread
  /\ canDetect = "uncalled"
  /\ config = <<>>
  /\ pc = "runSync"
  /\ ti = 0
  /\ idx = 0
  /\ secretsForTarget = <<>>
  /\ varsForTarget = <<>>
  /\ results = <<>>
  /\ lookups = <<>>
  /\ calls = <<>>
  /\ store = {}
  /\ storeResp = <<>>
  /\ report = <<>>
  /\ printed = <<>>
  /\ readmeUpdated = FALSE
  /\ exitCode = NoExit
  /\ previous = <<>>
  /\ entry = <<>>
  /\ parsed = <<>>
  /\ argv = <<>>
  /\ options = <<>>
  /\ text = <<>>
  /\ readme = NoFile
  /\ original = NoFile
  /\ runs = 0

\* main's catch block: print the error as JSON and exit with code 1
Catch(message) ==
  /\ printed' = Append(printed, [error |-> message])
  /\ exitCode' = 1
  /\ pc' = "exited"

\* runSync lines 76-81: require the credential, then configureAuth
RequireToken ==
  /\ pc = "runSync"
  /\ \E t \in (IF previous = <<>> THEN Tokens ELSE {previous[1].token}) :
       /\ token' = t
       /\ IF ~Truthy(t)
          THEN /\ Catch(<<"GH_SYNC_PAT environment variable is required">>)
               /\ UNCHANGED ghToken
          ELSE /\ ghToken' = TRUE
               /\ pc' = "loadConfig"
               /\ UNCHANGED <<printed, exitCode>>
  /\ UNCHANGED <<previous, entry, parsed, argv, options, text, readme, original, runs, env, dryRun, doc, canDetect, config, ti, idx,
                 secretsForTarget, varsForTarget, results, lookups, calls,
                 store, storeResp, report, readmeUpdated>>

\* runSync lines 88-91: the arguments of the log calls are evaluated whether
\* or not verbose is set; join and map exist on arrays only
LogConfig(cfg) ==
  IF cfg.secrets.kind # "array"
  THEN [threw |-> TRUE, message |-> <<"config.secrets.join is not a function">>]
  ELSE IF cfg.vars.kind \notin {"undefined", "array"}
  THEN [threw |-> TRUE, message |-> <<"config.vars?.join is not a function">>]
  ELSE IF cfg.targets.kind # "array"
  THEN [threw |-> TRUE, message |-> <<"config.targets.map is not a function">>]
  ELSE [threw |-> FALSE, message |-> NoError]

Reverse(l) == [i \in 1..Len(l) |-> l[Len(l) + 1 - i]]

\* the document of the run before, as it is or with its targets in the
\* opposite order
Rearranged(d, order) ==
  IF order = "permuted" /\ d.state = "parsed" /\ d.raw[1].targets.kind = "array"
  THEN [d EXCEPT !.raw = <<[d.raw[1] EXCEPT !.targets.list = Reverse(@)]>>]
  ELSE d

\* what this run can find at the configuration path and what
\* detectRepository can find: anything in a first run, what the run before
\* found in a second
DocsFound ==
  IF previous = <<>> THEN Docs
  ELSE {Rearranged(previous[1].doc, previous[1].order)}
DetectionsFound ==
  IF previous = <<>> \/ previous[1].canDetect = "uncalled" THEN Detections
  ELSE {previous[1].canDetect}

\* runSync lines 84-94: loadConfig (readFileSync, parseYaml, validateConfig)
LoadConfig ==
  /\ pc = "loadConfig"
  /\ \E d \in DocsFound, found \in DetectionsFound :
       /\ doc' = d
       /\ IF d.state = "unreadable"
          THEN /\ Catch(<<"ENOENT: no such file or directory">>)
               /\ UNCHANGED <<config, ti, canDetect>>
          ELSE /\ canDetect' = IF d.raw[1].source_repository = ""
                               THEN found ELSE "uncalled"
               /\ found = "undetectable" => d.raw[1].source_repository = ""
               /\ LET v == validateConfig(d.raw[1], found = "detected") IN
                  IF ~v.ok
                  THEN /\ Catch(v.message)
                       /\ UNCHANGED <<config, ti>>
                  ELSE /\ config' = <<Validated(d.raw[1])>>
                       /\ IF LogConfig(Validated(d.raw[1])).threw
                          THEN /\ Catch(LogConfig(Validated(d.raw[1])).message)
                               /\ UNCHANGED ti
                          ELSE /\ ti' = 1
                               /\ pc' = "target"
                               /\ UNCHANGED <<printed, exitCode>>
  /\ UNCHANGED <<previous, entry, parsed, argv, options, text, readme, original, runs, env, token, ghToken, dryRun, idx,
                 secretsForTarget, varsForTarget, results, lookups, calls,
                 store, storeResp, report, readmeUpdated>>

Targets == config[1].targets.list

\* runSync lines 98-104: enter the loop body for the next target
BeginTarget ==
  /\ pc = "target"
  /\ ti <= Len(Targets)
  /\ secretsForTarget' = SecretsFor(config[1], Targets[ti])
  /\ varsForTarget' = VarsFor(config[1], Targets[ti])
  /\ idx' = 1
  /\ pc' = "secrets"
  /\ UNCHANGED <<previous, entry, parsed, argv, options, text, readme, original, runs, env, token, ghToken, dryRun, doc, canDetect, config, ti,
                 results, lookups, calls, store, storeResp, report, printed,
                 readmeUpdated, exitCode>>

\* process.env[name]: the value the environment holds for name, the same at
\* every read
EnvRead(name) == IF name \in DOMAIN env THEN {env[name]} ELSE EnvValues(name)
ReadEnv(name, v) ==
  /\ v \in EnvRead(name)
  /\ env' = IF name \in DOMAIN env THEN env ELSE env @@ (name :> v)

\* what decides the value store's answer to a set call: the repository (the
\* credential can write to it, or it cannot)
StoreKey(c) == c.repo

\* the value store answers the calls it receives (cs holds no call, or one)
Receive(cs, accepted, stderr) ==
  /\ calls' = calls \o [i \in 1..Len(cs) |->
                          [call |-> cs[i], accepted |-> accepted, stderr |-> stderr]]
  /\ accepted => stderr = EmptyString
  /\ IF cs = <<>>
     THEN /\ accepted
          /\ UNCHANGED <<store, storeResp>>
     ELSE LET key == StoreKey(cs[1])
              answer == [accepted |-> accepted, stderr |-> stderr] IN
          /\ key \in DOMAIN storeResp => answer = storeResp[key]
          /\ storeResp' = IF key \in DOMAIN storeResp THEN storeResp
                          ELSE storeResp @@ (key :> answer)
          /\ store' = IF accepted THEN ApplyCall(store, cs[1]) ELSE store

\* runSync lines 107-122: one iteration of the secrets loop
SyncSecretStep ==
  /\ pc = "secrets"
  /\ idx <= Len(secretsForTarget)
  /\ LET secretName == secretsForTarget[idx] IN
     \E v \in EnvRead(StringOf(secretName)), accepted \in BOOLEAN, stderr \in StdErrs :
       /\ ReadEnv(StringOf(secretName), v)
       /\ lookups' = Append(lookups, [entry |-> secretName, name |-> StringOf(secretName),
                                      value |-> v])
       /\ LET got == getSecretValue(secretName, v) IN
          IF got.threw
          THEN /\ accepted /\ stderr = EmptyString
               /\ Catch(got.message)
               /\ UNCHANGED <<results, calls, store, storeResp, idx>>
          ELSE LET r == syncSecret(secretName, Targets[ti].repository,
                                   got.value, dryRun, accepted, stderr) IN
               /\ Receive(r.calls, accepted, stderr)
               /\ IF r.threw
                  THEN /\ Catch(r.message)
                       /\ UNCHANGED <<results, idx>>
                  ELSE /\ results' = Push(results, r.result)
                       /\ idx' = idx + 1
                       /\ UNCHANGED <<printed, exitCode, pc>>
  /\ UNCHANGED <<previous, entry, parsed, argv, options, text, readme, original, runs, token, ghToken, dryRun, doc, canDetect, config, ti,
                 secretsForTarget, varsForTarget, report, readmeUpdated>>

\* runSync line 107 -> 125: the secrets loop is exhausted
SecretsDone ==
  /\ pc = "secrets"
  /\ idx > Len(secretsForTarget)
  /\ idx' = 1
  /\ pc' = "vars"
  /\ UNCHANGED <<previous, entry, parsed, argv, options, text, readme, original, runs, env, token, ghToken, dryRun, doc, canDetect, config, ti,
                 secretsForTarget, varsForTarget, results, lookups, calls,
                 store, storeResp, report, printed, readmeUpdated, exitCode>>

\* runSync lines 125-140: one iteration of the vars loop
SyncVarStep ==
  /\ pc = "vars"
  /\ idx <= Len(varsForTarget)
  /\ LET varName == varsForTarget[idx] IN
     \E v \in EnvRead(StringOf(varName)), accepted \in BOOLEAN, stderr \in StdErrs :
       /\ ReadEnv(StringOf(varName), v)
       /\ lookups' = Append(lookups, [entry |-> varName, name |-> StringOf(varName),
                                      value |-> v])
       /\ LET got == getVarValue(varName, v) IN
          IF got.threw
          THEN /\ accepted /\ stderr = EmptyString
               /\ Catch(got.message)
               /\ UNCHANGED <<results, calls, store, storeResp, idx>>
          ELSE LET r == syncVariable(varName, Targets[ti].repository,
                                     got.value, dryRun, accepted, stderr) IN
               /\ Receive(r.calls, accepted, stderr)
               /\ IF r.threw
                  THEN /\ Catch(r.message)
                       /\ UNCHANGED <<results, idx>>
                  ELSE /\ results' = Push(results, r.result)
                       /\ idx' = idx + 1
                       /\ UNCHANGED <<printed, exitCode, pc>>
  /\ UNCHANGED <<previous, entry, parsed, argv, options, text, readme, original, runs, token, ghToken, dryRun, doc, canDetect, config, ti,
                 secretsForTarget, varsForTarget, report, readmeUpdated>>

\* runSync line 125 -> 98: the vars loop is exhausted, next target
VarsDone ==
  /\ pc = "vars"
  /\ idx > Len(varsForTarget)
  /\ ti' = ti + 1
  /\ pc' = "target"
  /\ UNCHANGED <<previous, entry, parsed, argv, options, text, readme, original, runs, env, token, ghToken, dryRun, doc, canDetect, config, idx,
                 secretsForTarget, varsForTarget, results, lookups, calls,
                 store, storeResp, report, printed, readmeUpdated, exitCode>>

\* runSync lines 143-153: the targets loop is exhausted, return the SyncResult
Summarise ==
  /\ pc = "target"
  /\ ti > Len(Targets)
  /\ report' = <<Summary(results)>>
  /\ pc' = "returned"
  /\ UNCHANGED <<previous, entry, parsed, argv, options, text, readme, original, runs, env, token, ghToken, dryRun, doc, canDetect, config, ti, idx,
                 secretsForTarget, varsForTarget, results, lookups, calls,
                 store, storeResp, printed, readmeUpdated, exitCode>>

\* updateReadme lines 197-235: the read of README.md is guarded by a try, the
\* write is not: writeFileSync either writes the file or throws
WriteError == <<"EACCES: permission denied, open README.md">>
updateReadme(writable) ==
  IF writable THEN [threw |-> FALSE, message |-> NoError, written |-> TRUE]
  ELSE [threw |-> TRUE, message |-> WriteError, written |-> FALSE]

\* the README updated after every live run, clean or not
ShouldUpdateReadmeWhenLive(dry, result) == ~dry

\* main line 259: if (!options.dryRun && result.failed === 0)
ShouldUpdateReadme(dry, result) == ~dry /\ result.failed = 0

\* main lines 255-268: printResult, updateReadme on a clean live run, exit;
\* what updateReadme throws is caught by main's catch block
Finish ==
  /\ pc = "returned"
  /\ IF ShouldUpdateReadme(dryRun, report[1])
     THEN \E writable \in BOOLEAN :
            LET u == updateReadme(writable) IN
            /\ readmeUpdated' = u.written
            /\ printed' = IF u.threw
                          THEN printed \o <<[result |-> report[1]], [error |-> u.message]>>
                          ELSE Append(printed, [result |-> report[1]])
            /\ exitCode' = IF u.threw THEN 1
                           ELSE IF report[1].failed > 0 THEN 1 ELSE 0
     ELSE /\ readmeUpdated' = FALSE
          /\ printed' = Append(printed, [result |-> report[1]])
          /\ exitCode' = IF report[1].failed > 0 THEN 1 ELSE 0
  /\ pc' = "exited"
  /\ UNCHANGED <<previous, entry, parsed, argv, options, text, readme, original, runs, env, token, ghToken, dryRun, doc, canDetect, config, ti, idx,
                 secretsForTarget, varsForTarget, results, lookups, calls,
                 store, storeResp, report>>

\* runSync lines 108-121 and 126-139: what log() writes for the items, when
\* verbose is set; ls the reads of the environment, rs the results
VerboseLog(ls, rs) ==
  [i \in 1..Len(ls) |->
     [processing |-> ls[i].name,
      retrieved |-> Truthy(ls[i].value),
      outcome |-> IF i > Len(rs) THEN <<>>
                  ELSE IF rs[i].success THEN <<"Success">>
                  ELSE <<"Failed:">> \o rs[i].error]]

\* the environment with another non-empty value for every secret that has
\* one (the names of the vars keep their values)
Revalued(e) ==
  [n \in DOMAIN e |->
     IF Truthy(e[n]) /\ n \notin {StringOf(v) : v \in VarEntries}
     THEN OtherValueOf(n) ELSE e[n]]

\* the runs that are followed by a second one: those that loaded a
\* configuration whose targets override nothing
Repeatable ==
  /\ config # <<>>
  /\ \A i \in 1..Len(config[1].targets.list) :
       /\ ~config[1].targets.list[i].secrets.present
       /\ ~config[1].targets.list[i].vars.present

\* the process is started again after it has exited: same options, same
\* value store, the same environment or one that differs in the values of
\* the secrets, and the same configuration document or the same document
\* with its targets list in another order; nothing else is kept from one
\* run to the next
RunAgain ==
  /\ pc = "exited"
  /\ previous = <<>>
  /\ Repeatable
  /\ \E order \in {"same", "permuted", "revalued"} :
       /\ env' = IF order = "revalued" THEN Revalued(env) ELSE env
       /\ order = "revalued" => Revalued(env) # env
       /\ order = "permuted" =>
            /\ doc.state = "parsed"
            /\ doc.raw[1].targets.kind = "array"
            /\ Reverse(doc.raw[1].targets.list) # doc.raw[1].targets.list
       /\ previous' = <<[order |-> order, token |-> token, doc |-> doc,
                         canDetect |-> canDetect, results |-> results,
                         report |-> report, printed |-> printed,
                         log |-> VerboseLog(lookups, results),
                         readmeUpdated |-> readmeUpdated,
                         store |-> store]>>
  /\ token' = Undefined
  /\ ghToken' = FALSE
  /\ doc' = Unread
  /\ canDetect' = "uncalled"
  /\ config' = <<>>
  /\ pc' = "runSync"
  /\ ti' = 0
  /\ idx' = 0
  /\ secretsForTarget' = <<>>
  /\ varsForTarget' = <<>>
  /\ results' = <<>>
  /\ lookups' = <<>>
  /\ calls' = <<>>
  /\ report' = <<>>
  /\ printed' = <<>>
  /\ readmeUpdated' = FALSE
  /\ exitCode' = NoExit
  /\ UNCHANGED <<dryRun, store, storeResp, entry, parsed, argv, options, text, readme, original, runs>>

Next ==
  \/ RequireToken
  \/ LoadConfig
  \/ BeginTarget
  \/ SyncSecretStep
  \/ SecretsDone
  \/ SyncVarStep
  \/ VarsDone
  \/ Summarise
  \/ Finish
  \/ RunAgain

Spec == Init /\ [][Next]_vars

-----------------------------------------------------------------------------
(* src/config.ts: parseYaml, the loop over the lines *)

\* A document is the sequence of its lines (content.split("\n")), a line a
\* sequence of characters; a word without a space, colon, dash or hash
\* counts as one character.  The object under construction is the set of
\* its nodes [path, kind, value]: path the keys and array indexes that lead
\* to the node from the root, kind "object", "array" or "string".

Spaces(n) == [i \in 1..n |-> " "]
StartsWith(s, c) == s # <<>> /\ s[1] = c
\* line.search(/\S/), of a line that is not blank
IndentOf(line) == Len(line) - Len(TrimStart(line))
\* parseYaml line 62: if (!trimmed || trimmed.startsWith("#")) continue
IsIgnored(line) == Trim(line) = <<>> \/ StartsWith(Trim(line), "#")

IndexNames == <<"[0]", "[1]", "[2]", "[3]", "[4]", "[5]", "[6]">>
Index(n) == <<IndexNames[n + 1]>>
IsPrefix(p, q) == Len(p) <= Len(q) /\ SubSeq(q, 1, Len(p)) = p
\* array.length: the number of elements pushed
ArrayLength(nodes, path) ==
  Cardinality({n \in nodes : /\ Len(n.path) = Len(path) + 1
                             /\ IsPrefix(path, n.path)
                             /\ \E k \in 1..Len(IndexNames) :
                                  n.path[Len(n.path)] = Index(k - 1)})
\* obj[key] = value, array.push(value): what the path held before is gone
Assign(nodes, path, kind, value) ==
  {n \in nodes : ~IsPrefix(path, n.path)}
    \cup {[path |-> path, kind |-> kind, value |-> value]}

\* parseYaml line 84: the context when the stack is empty
RootContext == [path |-> <<>>, indent |-> -1, isArray |-> FALSE]
Top(stack) == stack[Len(stack)]
Pop(stack) == SubSeq(stack, 1, Len(stack) - 1)

\* the pop loop without its first special case: a list item does not close
\* the object of the list item before it
RECURSIVE PopStack(_, _, _)
PopStackKeepsItem(stack, indent, isListItem) ==
  IF stack # <<>> /\ Top(stack).indent >= indent
  THEN IF Top(stack).indent = indent /\ ~Top(stack).isArray
       THEN stack
       ELSE PopStack(Pop(stack), indent, isListItem)
  ELSE stack

\* parseYaml lines 69-82: pop the stack to the level of the line
PopStack(stack, indent, isListItem) ==
  IF stack # <<>> /\ Top(stack).indent >= indent
  THEN IF Top(stack).indent = indent /\ isListItem
       THEN Pop(stack)
       ELSE IF Top(stack).indent = indent /\ ~Top(stack).isArray
       THEN stack
       ELSE PopStack(Pop(stack), indent, isListItem)
  ELSE stack

\* the look-ahead taking the next line, whatever it is
NextLineAsItIs(lines, i) ==
  IF i < Len(lines) THEN lines[i + 1] ELSE <<>>

\* parseYaml lines 116-125: the next line that is neither blank nor a
\* comment, "" when there is none
NextNonEmptyLine(lines, i) ==
  IF \E j \in (i + 1)..Len(lines) : ~IsIgnored(lines[j])
  THEN lines[CHOOSE j \in (i + 1)..Len(lines) :
               ~IsIgnored(lines[j]) /\ \A k \in (i + 1)..(j - 1) : IsIgnored(lines[k])]
  ELSE <<>>

\* parseYaml lines 60-148: one iteration of the loop.  st holds the nodes
\* of config, the stack, and for every line handled so far the context it
\* was handled in and what it made there (history)
ParseLine(st, lines, i) ==
  LET line == lines[i]
      trimmed == Trim(line)
  IN
  IF IsIgnored(line)
  THEN [st EXCEPT !.trace = Append(@, [ctx |-> <<>>, ctxIsArray |-> FALSE,
                                       made |-> "ignored", path |-> <<>>])]
  ELSE
  LET indent == IndentOf(line)
      isListItem == StartsWith(trimmed, "-")
      stack == PopStack(st.stack, indent, isListItem)
      currentContext == IF stack # <<>> THEN Top(stack) ELSE RootContext
      Here(made, path) == [ctx |-> currentContext.path,
                           ctxIsArray |-> currentContext.isArray,
                           made |-> made, path |-> path]
      Nothing == [nodes |-> st.nodes, stack |-> stack,
                  trace |-> Append(st.trace, Here("nothing", <<>>))]
  IN
  IF isListItem
  THEN LET itemContent == Trim(Substring(trimmed, 1, Len(trimmed)))
           itemPath == Append(currentContext.path,
                              Index(ArrayLength(st.nodes, currentContext.path)))
       IN
       IF IndexOf(itemContent, ":") = -1
       THEN IF currentContext.isArray
            THEN [nodes |-> Assign(st.nodes, itemPath, "string", itemContent),
                  stack |-> stack,
                  trace |-> Append(st.trace, Here("string in array", itemPath))]
            ELSE Nothing
       ELSE LET colonIndex == IndexOf(itemContent, ":")
                key == Substring(itemContent, 0, colonIndex)
                value == Trim(Substring(itemContent, colonIndex + 1, Len(itemContent)))
                withObject == Assign(st.nodes, itemPath, "object", <<>>)
            IN
            IF currentContext.isArray
            THEN [nodes |-> IF key # <<>>
                            THEN Assign(withObject, Append(itemPath, Trim(key)),
                                        "string", value)
                            ELSE withObject,
                  stack |-> Append(stack, [path |-> itemPath, indent |-> indent,
                                           isArray |-> FALSE]),
                  trace |-> Append(st.trace, Here("object in array", itemPath))]
            ELSE Nothing
  ELSE LET colonIndex == IndexOf(trimmed, ":") IN
       IF colonIndex > 0
       THEN LET key == Trim(Substring(trimmed, 0, colonIndex))
                value == Trim(Substring(trimmed, colonIndex + 1, Len(trimmed)))
                nextNonEmptyLine == NextNonEmptyLine(lines, i)
                isParentOfArray == StartsWith(Trim(nextNonEmptyLine), "-")
                hasIndentedContent ==
                  nextNonEmptyLine # <<>> /\ IndentOf(nextNonEmptyLine) > indent
                keyPath == Append(currentContext.path, key)
            IN
            IF value = <<>> \/ isParentOfArray \/ hasIndentedContent
            THEN IF isParentOfArray
                 THEN [nodes |-> Assign(st.nodes, keyPath, "array", <<>>),
                       stack |-> Append(stack, [path |-> keyPath, indent |-> indent,
                                                isArray |-> TRUE]),
                       trace |-> Append(st.trace, Here("array", keyPath))]
                 ELSE [nodes |-> Assign(st.nodes, keyPath, "object", <<>>),
                       stack |-> Append(stack, [path |-> keyPath, indent |-> indent,
                                                isArray |-> FALSE]),
                       trace |-> Append(st.trace, Here("object", keyPath))]
            ELSE [nodes |-> Assign(st.nodes, keyPath, "string", value),
                  stack |-> stack,
                  trace |-> Append(st.trace, Here("string", keyPath))]
       ELSE Nothing

RECURSIVE ParseLinesFrom(_, _, _)
ParseLinesFrom(st, lines, i) ==
  IF i > Len(lines) THEN st
  ELSE ParseLinesFrom(ParseLine(st, lines, i), lines, i + 1)

\* parseYaml lines 52-148: the loop throws nothing, whatever the lines are;
\* config is the object handed to validateConfig at line 150
parseYaml(lines) ==
  LET end == ParseLinesFrom([nodes |-> {}, stack |-> <<>>, trace |-> <<>>], lines, 1)
  IN [threw |-> FALSE, config |-> end.nodes, trace |-> end.trace]

\* the lines the documents are made of
TargetsLine == <<"targets", ":">>
RepositoryItem == Spaces(2) \o <<"-", " ", "repository", ":", " ", "o/r1">>
SecretsLine == Spaces(4) \o <<"secrets", ":">>
SecretItem == Spaces(6) \o <<"-", " ", "A">>
NoteLine == Spaces(4) \o <<"note", ":", " ", "x">>
SourceLine == <<"source_repository", ":", " ", "o/src">>
CommentLine == <<"#", " ", "comment">>
NoColonLine == <<"junk">>
YamlLines ==
  {TargetsLine, RepositoryItem, SecretsLine, SecretItem, NoteLine, SourceLine,
   CommentLine, BlankLine, NoColonLine}

-----------------------------------------------------------------------------
(* src/index.ts: parseArgs *)

\* a command-line argument is the sequence of its pieces between "=" signs
DryRunFlags == {<<"--dry-run">>, <<"-n">>}
VerboseFlags == {<<"--verbose">>, <<"-v">>}
HelpFlags == {<<"--help">>, <<"-h">>}
Args ==
  DryRunFlags \cup VerboseFlags \cup HelpFlags
    \cup {<<"--config", "other.yaml">>, <<"--force">>, <<"sync">>}

\* parseArgs lines 12-15
DefaultOptions == [dryRun |-> FALSE, verbose |-> FALSE, config |-> Undefined]

\* arg.startsWith("--config=")
IsConfigArg(arg) == Len(arg) >= 2 /\ arg[1] = "--config"

\* parseArgs in which an argument it does not know turns verbose on
ApplyArgUnknownIsVerbose(opts, arg) ==
  IF arg \in DryRunFlags THEN [opts EXCEPT !.dryRun = TRUE]
  ELSE IF IsConfigArg(arg) THEN [opts EXCEPT !.config = <<arg[2]>>]
  ELSE [opts EXCEPT !.verbose = TRUE]

\* parseArgs lines 18-34, the cases of the switch but help:
\* options.config = arg.split("=")[1]
ApplyArg(opts, arg) ==
  IF arg \in DryRunFlags THEN [opts EXCEPT !.dryRun = TRUE]
  ELSE IF arg \in VerboseFlags THEN [opts EXCEPT !.verbose = TRUE]
  ELSE IF IsConfigArg(arg) THEN [opts EXCEPT !.config = <<arg[2]>>]
  ELSE opts

\* parseArgs lines 17-36: the loop over the arguments; a help flag prints
\* the help and calls process.exit(0) at once
RECURSIVE ParseArgsFrom(_, _)
ParseArgsFrom(opts, args) ==
  IF args = <<>> THEN [exited |-> FALSE, code |-> NoExit, options |-> opts]
  ELSE IF Head(args) \in HelpFlags
  THEN [exited |-> TRUE, code |-> 0, options |-> opts]
  ELSE ParseArgsFrom(ApplyArg(opts, Head(args)), Tail(args))

parseArgs(args) == ParseArgsFrom(DefaultOptions, args)

-----------------------------------------------------------------------------
(* src/index.ts: generateSyncStatusTable, updateReadme *)

\* README.md is a sequence of lines, a line a sequence of pieces of text
StartMarker == <<"<!-- SYNC_STATUS_START -->">>
EndMarker == <<"<!-- SYNC_STATUS_END -->">>
TableHeader == <<"| Secret | Target Repo | Type | Last Sync | Status |">>
TableRule == <<"|--------|-------------|------|-----------|--------|">>
SectionTitle == <<"## Sync Status">>
LastUpdated(now) == <<"_Last updated:", now, "via workflow_">>
IsLastUpdated(line) == line # <<>> /\ line[1] = "_Last updated:"

\* the timestamps of consecutive runs
Clock == <<"t1", "t2", "t3", "t4", "t5">>

\* generateSyncStatusTable lines 163-170: the keys of the map, in the order
\* of their first detail
RECURSIVE SecretsOf(_)
SecretsOf(details) ==
  IF details = <<>> THEN <<>>
  ELSE LET before == SecretsOf(SubSeq(details, 1, Len(details) - 1))
           last == details[Len(details)].secret
       IN IF \E i \in 1..Len(before) : before[i] = last THEN before
          ELSE Append(before, last)

\* result.details.find(d => d.secret === secret && d.target === target)
FindDetail(details, secret, target) ==
  details[CHOOSE i \in 1..Len(details) :
            /\ details[i].secret = secret /\ details[i].target = target
            /\ \A j \in 1..(i - 1) :
                 ~(details[j].secret = secret /\ details[j].target = target)]

\* lines 178-182: one row
StatusRow(detail, now) ==
  <<"|">> \o StringOf(detail.secret) \o <<"|", detail.target, "|", detail.type,
    "|", now, "|">>
    \o (IF detail.success THEN <<"Synced">>
        ELSE IF detail.error # NoError THEN detail.error ELSE <<"Failed">>)
    \o <<"|">>

\* lines 173-183: the rows of one secret, one for each detail that names it
RowsOf(details, secret, now) ==
  LET mine == SelectSeq(details, LAMBDA d : d.secret = secret) IN
  [i \in 1..Len(mine) |-> StatusRow(FindDetail(details, secret, mine[i].target), now)]

RECURSIVE RowsFor(_, _, _)
RowsFor(details, secrets, now) ==
  IF secrets = <<>> THEN <<>>
  ELSE RowsOf(details, Head(secrets), now) \o RowsFor(details, Tail(secrets), now)

\* lines 185-191: rows.join("\n") of no row is one empty line
generateSyncStatusTable(result, now) ==
  LET rows == RowsFor(result.details, SecretsOf(result.details), now) IN
  <<StartMarker, TableHeader, TableRule>>
    \o (IF rows = <<>> THEN <<BlankLine>> ELSE rows)
    \o <<EndMarker, BlankLine, LastUpdated(now)>>

\* readmeContent.indexOf(marker), as a line number; 0 when there is none
LineOf(lines, marker) ==
  IF \E i \in 1..Len(lines) : lines[i] = marker
  THEN CHOOSE i \in 1..Len(lines) :
         lines[i] = marker /\ \A j \in 1..(i - 1) : lines[j] # marker
  ELSE 0

\* String.prototype.trimEnd, of lines
RECURSIVE DropBlankEnd(_)
DropBlankEnd(lines) ==
  IF lines # <<>> /\ lines[Len(lines)] = BlankLine
  THEN DropBlankEnd(SubSeq(lines, 1, Len(lines) - 1)) ELSE lines

\* updateReadme lines 201-212: what is written when README.md cannot be read
DefaultReadme ==
  << <<"# GitHub Secrets Sync">>, BlankLine,
     <<"Automated GitHub secret synchronization tool.">>, BlankLine,
     SectionTitle, BlankLine >>

\* updateReadme appending a new section whether or not the markers exist
readmeContentAppended(file, result, now) ==
  LET old == IF file.exists THEN file.lines ELSE DefaultReadme IN
  [exists |-> TRUE,
   lines |-> DropBlankEnd(old) \o <<BlankLine, SectionTitle, BlankLine>>
               \o generateSyncStatusTable(result, now)]

\* updateReadme lines 197-233: the content written to README.md
readmeContent(file, result, now) ==
  LET old == IF file.exists THEN file.lines ELSE DefaultReadme
      newStatusTable == generateSyncStatusTable(result, now)
      startIndex == LineOf(old, StartMarker)
      endIndex == LineOf(old, EndMarker)
  IN [exists |-> TRUE,
      lines |-> IF startIndex > 0 /\ endIndex > 0
                THEN SubSeq(old, 1, startIndex - 1) \o newStatusTable
                       \o SubSeq(old, endIndex + 1, Len(old))
                ELSE DropBlankEnd(old) \o <<BlankLine, SectionTitle, BlankLine>>
                       \o newStatusTable]

\* README.md before the first run: the repository's own (src/README.md lines
\* 115-122), the same with nothing after the status, one without the
\* markers, or none
RepositoryReadme ==
  [exists |-> TRUE,
   lines |-> << <<"# GitHub Secrets Sync">>, BlankLine, SectionTitle, BlankLine,
                StartMarker,
                <<"| Secret | Target Repo | Last Sync | Status |">>,
                <<"|--------|-------------|-----------|--------|">>,
                EndMarker, BlankLine,
                <<"_Last updated:", "Initial setup", "via workflow_">>,
                BlankLine, <<"## Security Model">> >>]
InitialReadmes ==
  {RepositoryReadme,
   [RepositoryReadme EXCEPT !.lines = SubSeq(@, 1, 10)],
   [RepositoryReadme EXCEPT !.lines = SubSeq(@, 1, 2)],
   NoFile}

\* the outcomes of a clean live run, and the details of its report
CleanOutcomes ==
  {[secret |-> <<"A">>, target |-> r, success |-> TRUE, error |-> NoError,
    type |-> "secret"] : r \in Repos}
  \cup {[secret |-> <<"B">>, target |-> FirstRepo, success |-> TRUE,
          error |-> NoError, type |-> "secret"],
        [secret |-> <<"V">>, target |-> FirstRepo, success |-> TRUE,
          error |-> NoError, type |-> "var"]}
CleanDetails == DistinctSeqsUpTo(CleanOutcomes, MaxDetails) \ {<<>>}

-----------------------------------------------------------------------------
(* parseSecret applied to every short string *)

Strings == SeqsUpTo(Chars, MaxLen)

\* the state in which nothing has run yet
Idle ==
  /\ env = <<>> /\ token = Undefined /\ ghToken = FALSE /\ dryRun = FALSE
  /\ doc = Unread /\ canDetect = "uncalled" /\ config = <<>> /\ ti = 0 /\ idx = 0
  /\ secretsForTarget = <<>> /\ varsForTarget = <<>> /\ results = <<>>
  /\ lookups = <<>> /\ calls = <<>> /\ store = {} /\ storeResp = <<>>
  /\ report = <<>> /\ printed = <<>> /\ readmeUpdated = FALSE
  /\ exitCode = NoExit /\ previous = <<>>

ParseInit ==
  /\ entry \in Strings
  /\ parsed = <<>>
  /\ pc = "parseSecret"
  /\ argv = <<>> /\ options = <<>> /\ text = <<>>
  /\ readme = NoFile /\ original = NoFile /\ runs = 0
  /\ env = <<>> /\ token = Undefined /\ ghToken = FALSE /\ dryRun = FALSE
  /\ doc = Unread /\ canDetect = "uncalled" /\ config = <<>> /\ ti = 0 /\ idx = 0
  /\ secretsForTarget = <<>> /\ varsForTarget = <<>> /\ results = <<>>
  /\ lookups = <<>> /\ calls = <<>> /\ store = {} /\ storeResp = <<>>
  /\ report = <<>> /\ printed = <<>> /\ readmeUpdated = FALSE
  /\ exitCode = NoExit /\ previous = <<>>

ParseEntry ==
  /\ pc = "parseSecret"
  /\ parsed' = <<parseSecret(entry)>>
  /\ pc' = "parsed"
  /\ UNCHANGED <<entry, argv, options, text, readme, original, runs, runVars2>>

ParseNext == ParseEntry

ParseSpec == ParseInit /\ [][ParseNext]_vars

-----------------------------------------------------------------------------
(* parseYaml applied to every short document *)

YamlInit ==
  /\ text \in SeqsUpTo(YamlLines, MaxLines)
  /\ parsed = <<>>
  /\ pc = "parseYaml"
  /\ Idle
  /\ entry = <<>> /\ argv = <<>> /\ options = <<>>
  /\ readme = NoFile /\ original = NoFile /\ runs = 0

ParseYaml ==
  /\ pc = "parseYaml"
  /\ parsed' = <<parseYaml(text)>>
  /\ pc' = "parsed"
  /\ UNCHANGED <<entry, argv, options, text, readme, original, runs, runVars2>>

YamlNext == ParseYaml

YamlSpec == YamlInit /\ [][YamlNext]_vars

-----------------------------------------------------------------------------
(* main from its first line: parseArgs, then runSync's credential check *)

ArgsInit ==
  /\ argv \in SeqsUpTo(Args, MaxArgs)
  /\ options = <<>>
  /\ pc = "main"
  /\ Idle
  /\ entry = <<>> /\ parsed = <<>> /\ text = <<>>
  /\ readme = NoFile /\ original = NoFile /\ runs = 0

\* main line 253: parseArgs returns the options, or ends the process
ParseArgs ==
  /\ pc = "main"
  /\ LET r == parseArgs(argv) IN
     IF r.exited
     THEN /\ printed' = Append(printed, [help |-> TRUE])
          /\ exitCode' = r.code
          /\ pc' = "exited"
          /\ UNCHANGED <<options, dryRun>>
     ELSE /\ options' = <<r.options>>
          /\ dryRun' = r.options.dryRun
          /\ pc' = "runSync"
          /\ UNCHANGED <<printed, exitCode>>
  /\ UNCHANGED <<previous, entry, parsed, argv, text, readme, original, runs,
                 env, token, ghToken, doc, canDetect, config, ti, idx,
                 secretsForTarget, varsForTarget, results, lookups, calls,
                 store, storeResp, report, readmeUpdated>>

ArgsNext ==
  \/ ParseArgs
  \/ RequireToken

ArgsSpec == ArgsInit /\ [][ArgsNext]_vars

-----------------------------------------------------------------------------
(* updateReadme applied run after run *)

ReadmeInit ==
  /\ original \in InitialReadmes
  /\ readme = original
  /\ runs = 0
  /\ pc = "updateReadme"
  /\ Idle
  /\ entry = <<>> /\ parsed = <<>> /\ text = <<>>
  /\ argv = <<>> /\ options = <<>>

\* one more clean live run: main line 260 calls updateReadme with its report
UpdateReadme ==
  /\ pc = "updateReadme"
  /\ runs < MaxRuns
  /\ \E details \in CleanDetails :
       readme' = readmeContent(readme, Summary(details), Clock[runs + 1])
  /\ runs' = runs + 1
  /\ UNCHANGED <<original, entry, parsed, argv, options, text, runVars2, pc>>

ReadmeNext == UpdateReadme

ReadmeSpec == ReadmeInit /\ [][ReadmeNext]_vars

-----------------------------------------------------------------------------
(* Properties of a run *)

Exited == pc = "exited"
Reported == report # <<>>
Details == report[1].details

\* nothing of the sync has happened
NothingDone ==
  /\ config = <<>> /\ lookups = <<>> /\ results = <<>> /\ calls = <<>>
  /\ store = {} /\ ~Reported /\ ~readmeUpdated

\* the effective lists of a target, as the specification states them
EffectiveSecrets(cfg, t) ==
  IF t.secrets.present THEN t.secrets.list ELSE cfg.secrets.list
EffectiveVars(cfg, t) ==
  IF t.vars.present THEN t.vars.list
  ELSE IF cfg.vars.present THEN cfg.vars.list ELSE <<>>

\* the work items of a configuration: target-major, secrets before vars,
\* list order
TargetItems(cfg, t) ==
  [i \in 1..Len(EffectiveSecrets(cfg, t)) |->
     <<t.repository, EffectiveSecrets(cfg, t)[i], "secret">>]
  \o [i \in 1..Len(EffectiveVars(cfg, t)) |->
     <<t.repository, EffectiveVars(cfg, t)[i], "var">>]

RECURSIVE ItemsUpTo(_, _)
ItemsUpTo(cfg, k) ==
  IF k = 0 THEN <<>>
  ELSE ItemsUpTo(cfg, k - 1) \o TargetItems(cfg, cfg.targets.list[k])

WorkItems(cfg) == ItemsUpTo(cfg, Len(cfg.targets.list))

OutcomeKeys(rs) == [i \in 1..Len(rs) |-> <<rs[i].target, rs[i].secret, rs[i].type>>]

\* the text of a whitelist entry as the document writes it
EntryText(item) ==
  IF IsObject(item) THEN SubSeq(item, 2, Len(item) - 1) ELSE item
\* the names SOURCE:TARGET stands for
RenameSource(item) ==
  LET t == EntryText(item) IN
  IF IndexOf(t, ":") > 0 THEN Substring(t, 0, IndexOf(t, ":")) ELSE t
RenameTarget(item) ==
  LET t == EntryText(item) IN
  IF IndexOf(t, ":") > 0 THEN Substring(t, IndexOf(t, ":") + 1, Len(t)) ELSE t

\* C1: when the environment has no value for a whitelisted name, only that
\* work item fails: a failed Outcome with an error is recorded for it and the
\* run goes on to a report that holds it.
C1_MissingValueFailsOnlyItsItem ==
  \A i \in 1..Len(lookups) :
    ~Truthy(lookups[i].value) =>
      /\ i <= Len(results)
      /\ ~results[i].success
      /\ results[i].error # NoError
      /\ Exited => (Reported /\ Len(Details) = Len(WorkItems(config[1])))

\* C2: a run that has ended either aborted before any work item was executed
\* (no lookup, no value-store call, no report) or returned a report with
\* exactly one Outcome per whitelist entry and at most one call per entry.
C2_AbortBeforeWorkOrFullReport ==
  Exited =>
    \/ (lookups = <<>> /\ calls = <<>> /\ ~Reported)
    \/ /\ Reported
       /\ OutcomeKeys(Details) = WorkItems(config[1])
       /\ Len(calls) <= Len(Details)

\* C3: a set call the value store rejects becomes a failed Outcome carrying
\* the error text, the exception never reaches runSync or main, and every
\* later item of the same target and of the later targets is still
\* processed: the run ends with a report that holds every work item.
C3_RejectionDoesNotStopProcessing ==
  /\ \A i \in 1..Len(calls) :
       ~calls[i].accepted =>
         /\ i <= Len(results)
         /\ results[i] = [secret |-> calls[i].call.name,
                          target |-> calls[i].call.repo,
                          success |-> FALSE,
                          error |-> ghError(calls[i].call, calls[i].stderr),
                          type |-> calls[i].call.op]
  /\ \A k \in 1..Len(printed) :
       "error" \in DOMAIN printed[k] =>
         \A i \in 1..Len(calls) :
           printed[k].error # ghError(calls[i].call, calls[i].stderr)
  /\ (Exited /\ \E i \in 1..Len(calls) : ~calls[i].accepted) =>
       /\ Reported
       /\ OutcomeKeys(Details) = WorkItems(config[1])

\* C4: the outcomes of a report are in target-major configuration order,
\* secrets before vars within a target, list order within a kind.
C4_ReportOrder ==
  Reported => OutcomeKeys(Details) = WorkItems(config[1])

\* global secrets [A, B], T1 overriding secrets [A], T2 overriding nothing
C4_Witness ==
  /\ Reported
  /\ config[1].secrets.list = << <<"A">>, <<"B">> >>
  /\ EffectiveVars(config[1], config[1].targets.list[1]) = <<>>
  /\ Len(config[1].targets.list) = 2
  /\ config[1].targets.list[1] =
       [repository |-> "o/r1", secrets |-> Some(<< <<"A">> >>), vars |-> None]
  /\ config[1].targets.list[2] =
       [repository |-> "o/r2", secrets |-> None, vars |-> None]
  /\ OutcomeKeys(Details) = << <<"o/r1", <<"A">>, "secret">>,
                               <<"o/r2", <<"A">>, "secret">>,
                               <<"o/r2", <<"B">>, "secret">> >>

\* C5: while a target is processed, its effective secret list is its own
\* list when it has one and the global list otherwise, and its effective var
\* list is its own list, else the global list, else empty.
C5_EffectiveLists ==
  pc \in {"secrets", "vars"} =>
    /\ secretsForTarget = EffectiveSecrets(config[1], config[1].targets.list[ti])
    /\ varsForTarget = EffectiveVars(config[1], config[1].targets.list[ti])

\* a target that overrides only vars, with global vars that differ: it uses
\* the global secrets and its own vars
C5_Witness ==
  /\ pc = "vars"
  /\ ~config[1].targets.list[ti].secrets.present
  /\ config[1].targets.list[ti].vars.present
  /\ config[1].vars.present
  /\ config[1].vars.list # config[1].targets.list[ti].vars.list
  /\ secretsForTarget = config[1].secrets.list
  /\ varsForTarget = config[1].targets.list[ti].vars.list

C7_RenameReadsSourceWritesTarget ==
  \A i \in 1..Len(lookups) :
    /\ lookups[i].name = RenameSource(lookups[i].entry)
    /\ i <= Len(results) => results[i].secret = RenameTarget(lookups[i].entry)
    /\ (~dryRun /\ i <= Len(calls)) =>
         calls[i].call.name = RenameTarget(lookups[i].entry)

\* C10: without the credential, or with a configuration document that cannot
\* be read or validated, the process exits with code 1 before anything of the
\* sync has happened; the credential is checked before the document is read.
LoadFails ==
  \/ doc.state = "unreadable"
  \/ /\ doc.state = "parsed"
     /\ \/ doc.raw[1].source_repository = "" /\ canDetect = "undetectable"
        \/ ~doc.raw[1].secrets.present
        \/ doc.raw[1].secrets.kind = "array" /\ doc.raw[1].secrets.list = <<>>
        \/ ~doc.raw[1].targets.present
        \/ doc.raw[1].targets.kind = "array" /\ doc.raw[1].targets.list = <<>>
        \/ doc.raw[1].targets.kind = "string"
        \/ /\ doc.raw[1].targets.kind = "array"
           /\ \E k \in 1..Len(doc.raw[1].targets.list) :
                doc.raw[1].targets.list[k].repository = NoRepo

C10_PreflightAbort ==
  /\ (pc # "runSync" /\ ~Truthy(token)) =>
        (Exited /\ exitCode = 1 /\ doc = Unread /\ ~ghToken /\ NothingDone)
  /\ LoadFails => (Exited /\ exitCode = 1 /\ NothingDone)

\* a run with the credential whose document lacks a target's repository
C10_Witness ==
  /\ Exited /\ Truthy(token) /\ doc.state = "parsed"
  /\ doc.raw[1].secrets.present /\ doc.raw[1].secrets.list # <<>>
  /\ doc.raw[1].targets.kind = "array"
  /\ \E k \in 1..Len(doc.raw[1].targets.list) :
       doc.raw[1].targets.list[k].repository = NoRepo
  /\ exitCode = 1 /\ NothingDone

\* C11: the exit code is non-zero when the credential is missing, when the
\* configuration fails to load, or when the report counts a failed Outcome;
\* it is zero for every run whose report counts no failed Outcome, dry or live.
C11_ExitCode ==
  Exited =>
    /\ (~Truthy(token) \/ LoadFails \/ (Reported /\ report[1].failed > 0)) =>
         exitCode # 0
    /\ (Reported /\ report[1].failed = 0) => exitCode = 0

IsNonEmptyList(v) == v.kind = "array" /\ Len(v.list) >= 1
\* a field whose key is written in the document without any list entry
HasNoEntries(v) ==
  \/ v.kind = "array" /\ Len(v.list) = 0
  \/ v.kind = "object"
  \/ v.kind = "string"

SecretsMissing == <<"Missing required field: secrets">>
TargetsMissing == <<"Missing required field: targets">>
RepositoryMissing == <<"Each target must have a 'repository' field">>
SourceUndetected == <<"Could not detect repository">>

\* the run ended in main's catch block with this one error printed
FailedWith(message) ==
  /\ Exited /\ exitCode = 1
  /\ Len(printed) = 1
  /\ "error" \in DOMAIN printed[1]
  /\ printed[1].error = message

\* C13: every configuration that loadConfig returns has a secrets list with at
\* least one entry, a targets list with at least one entry, and a non-empty
\* repository in every target.
C13_AcceptedConfigIsWellFormed ==
  config # <<>> =>
    /\ IsNonEmptyList(config[1].secrets)
    /\ IsNonEmptyList(config[1].targets)
    /\ \A k \in 1..Len(config[1].targets.list) :
         config[1].targets.list[k].repository # NoRepo

\* C14: a document whose secrets key has no list entry fails loading with the
\* missing-field error for secrets, whatever its vars and targets are (the
\* source label being given or detected).
C14_EmptySecretsFailsWithSecretsError ==
  (/\ doc.state = "parsed"
   /\ HasNoEntries(doc.raw[1].secrets)
   /\ canDetect # "undetectable") =>
    (FailedWith(SecretsMissing) /\ config = <<>>)

\* the earliest rule the parsed document violates, in the order source label,
\* secrets, targets, target repository
FirstViolatedRule ==
  IF doc.raw[1].source_repository = "" /\ canDetect = "undetectable"
  THEN SourceUndetected
  ELSE IF ~IsNonEmptyList(doc.raw[1].secrets) THEN SecretsMissing
  ELSE IF ~IsNonEmptyList(doc.raw[1].targets) THEN TargetsMissing
  ELSE IF \E k \in 1..Len(doc.raw[1].targets.list) :
            doc.raw[1].targets.list[k].repository = NoRepo
  THEN RepositoryMissing
  ELSE NoError

\* C15: a document that violates one or more validation rules fails with the
\* error of the earliest violated rule in the order source label, secrets,
\* targets, target repository.
C15_FirstViolatedRuleWins ==
  (doc.state = "parsed" /\ FirstViolatedRule # NoError) =>
    FailedWith(FirstViolatedRule)

\* C16: the source label is informational: a document with valid secrets and
\* targets is not rejected for lacking source_repository, even when the
\* repository cannot be detected.
C16_SourceLabelIsInformational ==
  (/\ doc.state = "parsed"
   /\ IsNonEmptyList(doc.raw[1].secrets)
   /\ doc.raw[1].vars.kind \in {"undefined", "array"}
   /\ IsNonEmptyList(doc.raw[1].targets)
   /\ \A k \in 1..Len(doc.raw[1].targets.list) :
        doc.raw[1].targets.list[k].repository # NoRepo) =>
    (config # <<>> /\ ~FailedWith(SourceUndetected))

\* the configuration lists name under kind op for the repository repo
Whitelisted(cfg, op, repo, name) ==
  \E k \in 1..Len(cfg.targets.list) :
    LET t == cfg.targets.list[k]
        names == IF op = "secret" THEN EffectiveSecrets(cfg, t)
                 ELSE EffectiveVars(cfg, t)
    IN /\ t.repository = repo
       /\ \E j \in 1..Len(names) : names[j] = name

\* C19: every call the value store receives names a target of the
\* configuration and a name of that target's effective list of the call's
\* kind, and the store holds nothing that is not whitelisted.
C19_WhitelistSafety ==
  /\ \A i \in 1..Len(calls) :
       Whitelisted(config[1], calls[i].call.op, calls[i].call.repo,
                   calls[i].call.name)
  /\ config # <<>> =>
       \A x \in store : Whitelisted(config[1], x.op, x.repo, x.name)

\* a live run over one target that lists only A, the global list holding two
\* names: the store received the one call for A and holds nothing else
C19_Witness ==
  /\ Reported /\ ~dryRun
  /\ Len(config[1].secrets.list) = 2
  /\ Len(config[1].targets.list) = 1
  /\ config[1].targets.list[1].secrets = Some(<< <<"A">> >>)
  /\ Len(calls) = 1
  /\ calls[1].accepted
  /\ calls[1].call.name = <<"A">>
  /\ store = {calls[1].call}

\* C20: an entry of a secret list goes through setSecret only and is reported
\* with type "secret"; an entry of a var list goes through setVariable only
\* and is reported with type "var".
C20_KindsNeverCross ==
  /\ \A i \in 1..Len(results) :
       /\ i <= Len(WorkItems(config[1]))
       /\ <<results[i].target, results[i].secret, results[i].type>>
            = WorkItems(config[1])[i]
  /\ \A i \in 1..Len(calls) :
       /\ i <= Len(WorkItems(config[1]))
       /\ <<calls[i].call.repo, calls[i].call.name, calls[i].call.op>>
            = WorkItems(config[1])[i]

\* a live run that wrote a secret and a var
C20_Witness ==
  /\ Reported /\ ~dryRun
  /\ \E i, j \in 1..Len(calls) :
       /\ calls[i].call.op = "secret" /\ Details[i].type = "secret"
       /\ calls[j].call.op = "var" /\ Details[j].type = "var"
       /\ calls[i].call \in store
       /\ calls[j].call \in store

\* the process has been run a second time and that run has ended
RanAgain(order) == previous # <<>> /\ previous[1].order = order /\ Exited

OutcomeSet(rs) == {rs[i] : i \in 1..Len(rs)}

\* C18: with the targets list in another order and the same environment and
\* store responses, every (target, name, kind) item succeeds or fails as in
\* the original order: the outcomes differ only in their order, a report is
\* returned in both runs or in neither, and the value store ends up the same.
C18_TargetOrderIsIrrelevant ==
  RanAgain("permuted") =>
    /\ OutcomeSet(results) = OutcomeSet(previous[1].results)
    /\ Len(results) = Len(previous[1].results)
    /\ (report = <<>>) <=> (previous[1].report = <<>>)
    /\ store = previous[1].store

\* C23: in every Outcome, recorded or reported, the error detail is present
\* exactly when success is false.
C23_ErrorIffFailed ==
  /\ \A i \in 1..Len(results) :
       (results[i].error # NoError) <=> ~results[i].success
  /\ Reported =>
       \A i \in 1..Len(Details) :
         (Details[i].error # NoError) <=> ~Details[i].success

\* a report of a live run with a successful Outcome without error and a
\* failed Outcome that carries the store's error text
C23_Witness ==
  /\ Reported /\ ~dryRun
  /\ \E i, j \in 1..Len(Details) :
       /\ Details[i].success /\ Details[i].error = NoError
       /\ ~Details[j].success /\ Details[j].error = StoreError

\* C28: every report has total = successful + failed = number of details,
\* successful the number of details with success true and failed the number
\* with success false.
C28_ReportCounts ==
  Reported =>
    /\ report[1].total = Len(Details)
    /\ report[1].total = report[1].successful + report[1].failed
    /\ report[1].successful =
         Cardinality({i \in 1..Len(Details) : Details[i].success})
    /\ report[1].failed =
         Cardinality({i \in 1..Len(Details) : ~Details[i].success})
    /\ Details = results

\* a report that counts two successes and one failure
C28_Witness ==
  /\ Reported
  /\ report[1].total = 3
  /\ report[1].successful = 2
  /\ report[1].failed = 1

\* C29: an environment entry that holds the empty string is treated like an
\* absent one: the lookup of a whitelisted name raises the not-found error,
\* an empty credential aborts the run with the credential error, and the
\* value store never receives a call with an empty or undefined value.
C29_EmptyIsAbsent ==
  /\ \A i \in 1..Len(lookups) :
       lookups[i].value \in {Undefined, EmptyString} =>
         /\ i = Len(lookups)
         /\ Len(results) = i - 1
         /\ FailedWith(<<IF i <= Len(WorkItems(config[1]))
                            /\ WorkItems(config[1])[i][3] = "var"
                         THEN "Var value not found for"
                         ELSE "Secret value not found for">>
                       \o lookups[i].name)
  /\ (pc # "runSync" /\ token \in {Undefined, EmptyString}) =>
       (FailedWith(<<"GH_SYNC_PAT environment variable is required">>)
        /\ ~ghToken /\ doc = Unread)
  /\ \A i \in 1..Len(calls) :
       calls[i].call.value \notin {Undefined, EmptyString}

\* a run that wrote one value and then aborted on a name whose environment
\* entry is the empty string
C29_Witness ==
  /\ Exited /\ ~Reported
  /\ Len(calls) = 1
  /\ Len(lookups) = 2
  /\ lookups[2].value = EmptyString
  /\ lookups[2].name \in DOMAIN env
  /\ env[lookups[2].name] = EmptyString

\* C21: two runs that differ only in the non-empty values of the secrets,
\* with the same answers of the value store, print the same, return the same
\* report, write the same verbose log lines and the same status table.
C21_ValuesDoNotFlow ==
  RanAgain("revalued") =>
    /\ report = previous[1].report
    /\ printed = previous[1].printed
    /\ VerboseLog(lookups, results) = previous[1].log
    /\ readmeUpdated = previous[1].readmeUpdated
    /\ readmeUpdated =>
         generateSyncStatusTable(report[1], Clock[1])
           = generateSyncStatusTable(previous[1].report[1], Clock[1])

-----------------------------------------------------------------------------
(* Properties of parseArgs and of main's first step *)

HasHelp(args) == \E i \in 1..Len(args) : args[i] \in HelpFlags
Recognised(arg) ==
  arg \in DryRunFlags \cup VerboseFlags \cup HelpFlags \/ IsConfigArg(arg)

\* C22: a help flag ends the process with exit code 0 and neither the
\* credential check nor the configuration load has happened; without a help
\* flag the options are those of the recognised arguments alone, and dry-run
\* and verbose are true exactly when one of their flags was given.
C22_CommandLine ==
  pc # "main" =>
    /\ HasHelp(argv) =>
         /\ pc = "exited" /\ exitCode = 0
         /\ token = Undefined /\ ~ghToken /\ doc = Unread /\ config = <<>>
         /\ \A k \in 1..Len(printed) : "error" \notin DOMAIN printed[k]
    /\ ~HasHelp(argv) =>
         /\ options # <<>>
         /\ options[1] = parseArgs(SelectSeq(argv, Recognised)).options
         /\ options[1].dryRun <=> \E i \in 1..Len(argv) : argv[i] \in DryRunFlags
         /\ options[1].verbose <=> \E i \in 1..Len(argv) : argv[i] \in VerboseFlags
         /\ dryRun = options[1].dryRun

\* the process has exited with code 0 on a help flag that follows an
\* argument parseArgs does not know
C22_Witness ==
  /\ pc = "exited" /\ exitCode = 0
  /\ argv = << <<"--force">>, <<"-h">> >>
  /\ options = <<>> /\ ~ghToken

-----------------------------------------------------------------------------
(* Properties of updateReadme *)

CountLines(lines, P(_)) == Cardinality({i \in 1..Len(lines) : P(lines[i])})
IsStartMarker(line) == line = StartMarker
IsEndMarker(line) == line = EndMarker
\* one pair of markers followed by one line of the last update
WellFormed(file) ==
  /\ file.exists
  /\ CountLines(file.lines, IsStartMarker) = 1
  /\ CountLines(file.lines, IsEndMarker) = 1
  /\ CountLines(file.lines, IsLastUpdated) = 1
  /\ LineOf(file.lines, StartMarker) < LineOf(file.lines, EndMarker)
TextBefore(file) == SubSeq(file.lines, 1, LineOf(file.lines, StartMarker) - 1)

\* C30: from a README.md with one pair of markers followed by one line of
\* the last update, any number of clean live runs leaves one start marker,
\* one end marker, one line of the last update, and the text before the
\* start marker as it was.
C30_ReadmeStaysWellFormed ==
  (pc = "updateReadme" /\ WellFormed(original)) =>
    /\ WellFormed(readme)
    /\ TextBefore(readme) = TextBefore(original)

-----------------------------------------------------------------------------
(* Properties of parseYaml *)

YamlParsed == pc = "parsed" /\ text # <<>> /\ parsed # <<>>
Trace == parsed[1].trace
Handled(i) == ~IsIgnored(text[i])
\* a list item "- key: value", a line "key: value" or "key:"
IsObjectItem(line) ==
  /\ ~IsIgnored(line) /\ StartsWith(Trim(line), "-")
  /\ IndexOf(Trim(line), ":") # -1
IsKeyLine(line) ==
  /\ ~IsIgnored(line) /\ ~StartsWith(Trim(line), "-")
  /\ IndexOf(Trim(line), ":") > 0
\* the first handled line after line i that is not indented deeper than it,
\* Len(text) + 1 when there is none
EndOfScope(i) ==
  IF \E j \in (i + 1)..Len(text) :
       Handled(j) /\ IndentOf(text[j]) <= IndentOf(text[i])
  THEN CHOOSE j \in (i + 1)..Len(text) :
         /\ Handled(j) /\ IndentOf(text[j]) <= IndentOf(text[i])
         /\ \A k \in (i + 1)..(j - 1) :
              ~(Handled(k) /\ IndentOf(text[k]) <= IndentOf(text[i]))
  ELSE Len(text) + 1
\* the handled lines that follow line i and are indented deeper than it
ScopeOf(i) == {j \in (i + 1)..(EndOfScope(i) - 1) : Handled(j)}

\* no line after line j assigns the node at path or a node above it
Kept(path, j) ==
  \A k \in (j + 1)..Len(text) :
    Trace[k].path = <<>> \/ ~IsPrefix(Trace[k].path, path)

C25_ContainerEnds ==
  YamlParsed =>
    \A i \in 1..Len(text) :
      (IsKeyLine(text[i]) /\ Trace[i].made \in {"array", "object"}) =>
        LET j == EndOfScope(i) IN
        (j <= Len(text) /\ IsKeyLine(text[j])) =>
          /\ ~IsPrefix(Trace[i].path, Trace[j].ctx)
          /\ IndentOf(text[j]) = IndentOf(text[i]) => Trace[j].ctx = Trace[i].ctx

\* a line that is no list item and has no colon, or a list item without a
\* colon handled where the context is no array
Unresolved(i) ==
  /\ Handled(i)
  /\ \/ ~StartsWith(Trim(text[i]), "-") /\ IndexOf(Trim(text[i]), ":") = -1
     \/ /\ StartsWith(Trim(text[i]), "-") /\ IndexOf(Trim(text[i]), ":") = -1
        /\ ~Trace[i].ctxIsArray

\* C26: a document with a line that has no colon and is no list item, or
\* with a scalar list item outside an array, is not parsed: parseYaml throws.
C26_StructuralErrors ==
  YamlParsed =>
    ((\E i \in 1..Len(text) : Unresolved(i)) => parsed[1].threw)

\* the document without its blank and comment lines
NotIgnored(line) == ~IsIgnored(line)
Stripped(lines) == SelectSeq(lines, NotIgnored)

\* C27: the object parseYaml builds is the one it builds for the document
\* without its blank and comment lines.
C27_BlankAndCommentLinesIgnored ==
  YamlParsed =>
    /\ parsed[1].config = parseYaml(Stripped(text)).config
    /\ parsed[1].threw = parseYaml(Stripped(text)).threw

\* a comment and a blank line between targets: and its first list item
C27_Witness ==
  /\ YamlParsed
  /\ text = <<TargetsLine, CommentLine, BlankLine, RepositoryItem>>
  /\ [path |-> << <<"targets">>, Index(0), <<"repository">> >>,
      kind |-> "string", value |-> <<"o/r1">>] \in parsed[1].config

-----------------------------------------------------------------------------
(* Properties of parseSecret *)

\* the entry has a first separator, and it is not the first character
SplitsAt(e, k) ==
  /\ k \in 2..Len(e)
  /\ e[k] = ":"
  /\ \A j \in 1..(k - 1) : e[j] # ":"
Splits(e) == \E k \in 1..Len(e) : SplitsAt(e, k)

\* t is s without its leading and trailing whitespace
IsTrimOf(t, s) ==
  \E i \in 1..(Len(s) + 1), j \in 0..Len(s) :
    /\ t = SubSeq(s, i, j)
    /\ \A k \in 1..(i - 1) : IsSpace(s[k])
    /\ \A k \in (j + 1)..Len(s) : IsSpace(s[k])
    /\ t # <<>> => (~IsSpace(t[1]) /\ ~IsSpace(t[Len(t)]))

\* C8, as stated: without a separator, or with the first separator at
\* position 0, readAs = writeAs = the entry; otherwise readAs is the text
\* before the first separator and writeAs all the text after it.
C8_ReferenceRule ==
  parsed # <<>> =>
    IF Splits(entry)
    THEN \A k \in 1..Len(entry) :
           SplitsAt(entry, k) =>
             /\ parsed[1].source = SubSeq(entry, 1, k - 1)
             /\ parsed[1].target = SubSeq(entry, k + 1, Len(entry))
    ELSE parsed[1].source = entry /\ parsed[1].target = entry

\* C8, amended: the two parts are returned without their leading and
\* trailing whitespace; parseSecret returns a mapping for every string.
C8_TrimmedRule ==
  /\ pc = "parsed" => Len(parsed) = 1
  /\ parsed # <<>> =>
       IF Splits(entry)
       THEN \A k \in 1..Len(entry) :
              SplitsAt(entry, k) =>
                /\ IsTrimOf(parsed[1].source, SubSeq(entry, 1, k - 1))
                /\ IsTrimOf(parsed[1].target, SubSeq(entry, k + 1, Len(entry)))
       ELSE parsed[1].source = entry /\ parsed[1].target = entry

\* an entry with whitespace before the separator and a second separator
C8_Witness ==
  /\ parsed # <<>>
  /\ entry = <<"A", " ", ":", ":">>
  /\ parsed[1].source = <<"A">>
  /\ parsed[1].target = <<":">>

\* C9: isRenamed is true exactly when the source differs from the target.
C9_IsRenamedIffDiffers ==
  parsed # <<>> =>
    (parsed[1].isRenamed <=> parsed[1].source # parsed[1].target)

====
